---- MODULE Spec2Model ----
(***************************************************************************)
(* A model of the mesh-processing server (src/server.py): the detached     *)
(* converter coordinator (obj_to_glb / glb_to_obj_with_textures), the      *)
(* process_model pipeline, the progressive decimator, the material         *)
(* relinker, the top-level requests that share TEMP_DIR, the retopology   *)
(* call (run_instant_meshes) and the download helper (download_to_temp).   *)
(* Each component has its own specification over the shared variables;     *)
(* the variables of the other components stay idle.                        *)
(***************************************************************************)
EXTENDS Integers, Sequences, FiniteSets, TLC

VARIABLES
    \* ---- converter coordinator (obj_to_glb / glb_to_obj_with_textures)
    tool,               \* which of the two converter functions is running
    cpc,                \* position inside the converter function
    waited_time,        \* the poll counter
    blender_completed,  \* the loop's completion verdict
    obs_flag,           \* local done_flag_exists of the current poll
    obs_exists,         \* local glb_exists / obj_exists of the current poll
    glb_size,           \* local glb_size / obj_size of the current poll
    new_glb_size,       \* local new_glb_size of the follow-up check (-1: not taken)
    how,                \* which branch set blender_completed: "none", "flag", "stable"
    flag_file,          \* file system: the completion flag exists
    script_file,        \* file system: the generated driver script exists
    out_exists,         \* file system: the expected output file exists
    out_size,           \* file system: its size
    proc,               \* the detached tool process: "none", "running", "finishing", "exited", "terminated"
    conv_result,        \* "none", "blender", "trimesh", "raised"
    \* ---- process_model
    ppc,                \* position inside process_model
    target_faces,       \* argument target_faces
    operation,          \* argument operation
    mesh,               \* the staged input mesh (obj_in)
    original_quality,   \* check_mesh_quality(obj_in)
    original_faces,     \* original_quality.get("faces", 0)
    actual_operation,   \* the selected strategy
    final_obj,          \* which file is handed on: "none", "obj_in", "simplified", "remeshed"
    final_mesh,         \* the mesh in final_obj
    final_faces,        \* final_quality.get("faces", 0)
    stages,             \* the stages invoked so far, in order
    cleaned,            \* number of clean_temp_directory() calls
    pm_result,          \* "none", "returned", "raised"
    pm_error,           \* which exception reached the caller
    \* ---- simplify_with_uv_preservation / progressive_simplify
    dpc,                \* position inside the decimator
    d_input,            \* [loads, faces, texcoords]: the input file
    d_target,           \* argument target_faces
    preserve_boundaries,\* argument preserve_boundaries
    preserve_uv,        \* process_model's argument preserve_uv (the decimator has no such parameter)
    ms_faces,           \* face_number() of ms.current_mesh()
    current_faces,      \* local current_faces
    prev_faces,         \* local prev_faces
    step,               \* local step
    exit_reason,        \* why the progressive loop ended
    first_call,         \* the first collapse request made
    last_call,          \* the latest collapse request made
    ncalls,             \* how many collapse requests were made
    d_result,           \* "none", "input_path", "simplified", "raised"
    saved_faces,        \* face count of the file handed back
    \* ---- restore_obj_material
    r_new,              \* lines of the new mesh file (obj_path)
    r_ref,              \* the reference mesh file (original_obj_path)
    r_scratch,          \* file names present in TEMP_DIR
    r_orig,             \* file names present in the reference's directory
    r_newdir,           \* files copied beside the new mesh: [name, from]
    r_mtl_refs,         \* texture file names the material file references, in order
    r_tex_failed,       \* textures whose copy was passed over in the latest call
    r_apps,             \* how many times relink has been applied
    r_outcome,          \* how the latest application ended
    r_before,           \* the new mesh file before the latest application
    r_first,            \* outcome and file after the first application
    \* ---- top-level requests sharing TEMP_DIR
    w_kind,             \* per request: "process", "analyze" or "absent"
    w_pc,               \* per request: position inside the tool function
    w_scratch,          \* the entries of TEMP_DIR: [owner, name]
    w_hit,              \* per request: its files another request's wipe deleted
    w_lost,             \* per request: files it went to read and did not find
    w_wipes,            \* per request: clean_temp_directory() calls made
    w_result,           \* per request: "none", "returned", "raised"
    \* ---- run_instant_meshes
    im_pc,              \* position inside run_instant_meshes
    im_mode,            \* argument mode
    im_target,          \* argument target_faces
    im_faces,           \* the value passed as --faces
    im_procs,           \* 'Instant Meshes.exe' processes, by the job they belong to
    im_waited,          \* seconds spent inside proc.communicate()
    im_result,          \* "none", "returned", "raised"
    \* ---- download_to_temp
    dl_pc,              \* position inside download_to_temp
    dl_attempt,         \* the for loop's attempt
    dl_log,             \* what each attempt made so far ended as, in order
    retry_delay,        \* local retry_delay, in quarter seconds
    dl_slept,           \* quarter seconds spent in time.sleep
    dl_file,            \* the temp file: "absent", "empty", "partial", "full"
    dl_result           \* "none", "path", "RuntimeError", "OSError"

convVars == <<tool, cpc, waited_time, blender_completed, obs_flag, obs_exists,
              glb_size, new_glb_size, how, flag_file, script_file, out_exists,
              out_size, proc, conv_result>>

pmVars == <<ppc, target_faces, operation, mesh, original_quality, original_faces,
            actual_operation, final_obj, final_mesh, final_faces, stages, cleaned,
            pm_result, pm_error>>

decVars == <<dpc, d_input, d_target, preserve_boundaries, preserve_uv, ms_faces, current_faces,
             prev_faces, step, exit_reason, first_call, last_call, ncalls, d_result,
             saved_faces>>

rlVars == <<r_new, r_ref, r_scratch, r_orig, r_newdir, r_mtl_refs, r_tex_failed, r_apps,
            r_outcome,
            r_before, r_first>>

wsVars == <<w_kind, w_pc, w_scratch, w_hit, w_lost, w_wipes, w_result>>

imVars == <<im_pc, im_mode, im_target, im_faces, im_procs, im_waited, im_result>>

dlVars == <<dl_pc, dl_attempt, dl_log, retry_delay, dl_slept, dl_file, dl_result>>

vars == <<convVars, pmVars, decVars, rlVars, wsVars, imVars, dlVars>>

\* The variables each component leaves alone.
NotConv == <<pmVars, decVars, rlVars, wsVars, imVars, dlVars>>
NotPM == <<convVars, decVars, rlVars, wsVars, imVars, dlVars>>
NotDec == <<convVars, pmVars, rlVars, wsVars, imVars, dlVars>>
NotRL == <<convVars, pmVars, decVars, wsVars, imVars, dlVars>>
NotWS == <<convVars, pmVars, decVars, rlVars, imVars, dlVars>>
NotIM == <<convVars, pmVars, decVars, rlVars, wsVars, dlVars>>
NotDL == <<convVars, pmVars, decVars, rlVars, wsVars, imVars>>

(***************************************************************************)
(* Bounds and program constants                                            *)
(***************************************************************************)
MaxSize == 2          \* largest output size the tool process writes
MaxFaces == 3         \* largest face count of an input mesh
MaxTarget == 2        \* largest target_faces argument
MaxDFaces == 11       \* largest face count the decimator meets
MaxDTarget == 5       \* largest target_faces handed to the decimator
MaxLines == 2         \* longest new mesh file, in lines
MaxRefLines == 2      \* longest reference mesh file, in lines
MaxReqs == 2          \* top-level requests that may overlap
MaxIMTarget == 3      \* largest target_faces handed to run_instant_meshes

max_wait_time == 180  \* max_wait_time = 180
stable_after == 30    \* waited_time > 30
max_steps == 10       \* max_steps = 10

(***************************************************************************)
(* Idle values: a component that a specification does not run              *)
(***************************************************************************)
NoMesh == [loadable |-> FALSE, faces |-> 0, vertices |-> 0, watertight |-> FALSE]

PMIdle ==
    /\ ppc = "idle"
    /\ target_faces = 0
    /\ operation = "none"
    /\ mesh = NoMesh
    /\ original_quality = [error |-> TRUE]
    /\ original_faces = 0
    /\ actual_operation = "none"
    /\ final_obj = "none"
    /\ final_mesh = NoMesh
    /\ final_faces = 0
    /\ stages = <<>>
    /\ cleaned = 0
    /\ pm_result = "none"
    /\ pm_error = "none"

NoCall == [fn |-> "none", target |-> 0, weight |-> 0]

DecIdle ==
    /\ dpc = "idle"
    /\ d_input = [loads |-> FALSE, faces |-> 0, texcoords |-> FALSE]
    /\ d_target = 0
    /\ preserve_boundaries = FALSE
    /\ preserve_uv = FALSE
    /\ ms_faces = 0
    /\ current_faces = 0
    /\ prev_faces = 0
    /\ step = 0
    /\ exit_reason = "none"
    /\ first_call = NoCall
    /\ last_call = NoCall
    /\ ncalls = 0
    /\ d_result = "none"
    /\ saved_faces = 0

RLIdle ==
    /\ r_new = <<>>
    /\ r_ref = [exists |-> FALSE, readable |-> FALSE, lines |-> <<>>]
    /\ r_scratch = {}
    /\ r_orig = {}
    /\ r_newdir = {}
    /\ r_mtl_refs = <<>>
    /\ r_tex_failed = {}
    /\ r_apps = 0
    /\ r_outcome = "idle"
    /\ r_before = <<>>
    /\ r_first = [outcome |-> "none", lines |-> <<>>, mtllibs |-> 0]

Reqs == 1..MaxReqs

WSIdle ==
    /\ w_kind = [r \in Reqs |-> "absent"]
    /\ w_pc = [r \in Reqs |-> "idle"]
    /\ w_scratch = {}
    /\ w_hit = [r \in Reqs |-> {}]
    /\ w_lost = [r \in Reqs |-> {}]
    /\ w_wipes = [r \in Reqs |-> 0]
    /\ w_result = [r \in Reqs |-> "none"]

DLIdle ==
    /\ dl_pc = "idle"
    /\ dl_attempt = 0
    /\ dl_log = <<>>
    /\ retry_delay = 0
    /\ dl_slept = 0
    /\ dl_file = "absent"
    /\ dl_result = "none"

IMIdle ==
    /\ im_pc = "idle"
    /\ im_mode = "none"
    /\ im_target = 0
    /\ im_faces = 0
    /\ im_procs = [j \in {"own", "other"} |-> "none"]
    /\ im_waited = 0
    /\ im_result = "none"

ConvIdle ==
    /\ tool = "none"
    /\ cpc = "idle"
    /\ waited_time = 0
    /\ blender_completed = FALSE
    /\ obs_flag = FALSE
    /\ obs_exists = FALSE
    /\ glb_size = 0
    /\ new_glb_size = -1
    /\ how = "none"
    /\ flag_file = FALSE
    /\ script_file = FALSE
    /\ out_exists = FALSE
    /\ out_size = 0
    /\ proc = "none"
    /\ conv_result = "none"

(***************************************************************************)
(* Converter coordinator                                                   *)
(***************************************************************************)
Tools == {"obj_to_glb", "glb_to_obj_with_textures"}

\* get_temp_file: tempfile.mkstemp creates the (empty) file and returns its path.
get_temp_file == TRUE

\* Mutant: the removal fails and the file stays.
RemoveFile_Fails(exists) == exists

\* os.remove / os.path.exists + os.remove on a temp file of this job.
RemoveFile(exists) == FALSE

\* Mutant: the flag branch without the size test.
FlagComplete_NoSize(f, e, s) == f /\ e

\* The completion test of one poll: flag, output present and non-empty.
FlagComplete(f, e, s) == f /\ e /\ s > 0

\* The elif of the poll: output present and non-empty, after more than 30 ticks.
StableCandidate(e, s, w) == e /\ s > 0 /\ w > stable_after

\* The follow-up check: same size and non-empty.
StableConfirmed(ns, s) == ns = s /\ s > 0

\* The timeout branch's termination pass.  Both converter functions contain a
\* function-level "import psutil" further down (in the failure branch), which
\* makes psutil a local name of the whole function; here it is still unbound,
\* psutil.process_iter raises UnboundLocalError, and the enclosing
\* "except Exception" logs it: no process is terminated.
TimeoutTerminate(p) == p

\* The failure branch's termination pass (after its own import psutil): every
\* process named blender whose command line holds script_path is terminated.
FailureTerminate(p) == IF p \in {"running", "finishing"} THEN "terminated" ELSE p

\* Mutant: the last test without the size test.
OutputValid_ExistsOnly(e, s) == e

\* The last test of the Blender path: the output exists and is non-empty.
OutputValid(e, s) == e /\ s > 0

ConvInit ==
    /\ tool \in Tools
    /\ cpc = "start"
    /\ waited_time = 0
    /\ blender_completed = FALSE
    /\ obs_flag = FALSE
    /\ obs_exists = FALSE
    /\ glb_size = 0
    /\ new_glb_size = -1
    /\ how = "none"
    /\ flag_file = FALSE
    /\ script_file = FALSE
    /\ out_exists \in BOOLEAN     \* callers pass get_temp_file paths (empty file) or fresh paths
    /\ out_size = 0
    /\ proc = "none"
    /\ conv_result = "none"
    /\ PMIdle
    /\ DecIdle
    /\ RLIdle
    /\ WSIdle
    /\ IMIdle
    /\ DLIdle

\* get_blender_executable_with_fallback() returned None: straight to trimesh.
ConvNoBlender ==
    /\ cpc = "start"
    /\ cpc' = "trimesh"
    /\ UNCHANGED <<tool, waited_time, blender_completed, obs_flag, obs_exists, glb_size,
                   new_glb_size, how, flag_file, script_file, out_exists, out_size,
                   proc, conv_result>>
    /\ UNCHANGED NotConv

\* Blender found: flag path reserved and cleared, script written, process
\* started detached with "start", poll counter reset.
ConvLaunch ==
    /\ cpc = "start"
    /\ flag_file' = (IF get_temp_file THEN RemoveFile(TRUE) ELSE FALSE)
    /\ script_file' = get_temp_file
    /\ proc' = "running"
    /\ waited_time' = 0
    /\ blender_completed' = FALSE
    /\ cpc' = "poll"
    /\ UNCHANGED <<tool, obs_flag, obs_exists, glb_size, new_glb_size, how,
                   out_exists, out_size, conv_result>>
    /\ UNCHANGED NotConv

\* Writing the script or Popen raised: the outer "except Exception" falls
\* back to trimesh.
ConvLaunchRaises ==
    /\ cpc = "start"
    /\ flag_file' = (IF get_temp_file THEN RemoveFile(TRUE) ELSE FALSE)
    /\ script_file' = get_temp_file
    /\ cpc' = "trimesh"
    /\ UNCHANGED <<tool, waited_time, blender_completed, obs_flag, obs_exists, glb_size,
                   new_glb_size, how, out_exists, out_size, proc, conv_result>>
    /\ UNCHANGED NotConv

\* One pass of "while waited_time < max_wait_time": the three observations and
\* the if / elif.
ConvPoll ==
    /\ cpc = "poll"
    /\ waited_time < max_wait_time
    /\ obs_flag' = flag_file
    /\ obs_exists' = out_exists
    /\ glb_size' = (IF out_exists THEN out_size ELSE 0)
    /\ new_glb_size' = -1
    /\ IF FlagComplete(flag_file, out_exists, IF out_exists THEN out_size ELSE 0)
       THEN /\ blender_completed' = TRUE
            /\ how' = "flag"
            /\ cpc' = "after_loop"
       ELSE /\ UNCHANGED <<blender_completed, how>>
            /\ cpc' = (IF StableCandidate(out_exists, IF out_exists THEN out_size ELSE 0,
                                          waited_time)
                       THEN "recheck" ELSE "sleep")
    /\ UNCHANGED <<tool, waited_time, flag_file, script_file, out_exists, out_size,
                   proc, conv_result>>
    /\ UNCHANGED NotConv

\* time.sleep(2), then the size is read again.
ConvRecheck ==
    /\ cpc = "recheck"
    /\ new_glb_size' = (IF out_exists THEN out_size ELSE 0)
    /\ IF StableConfirmed(IF out_exists THEN out_size ELSE 0, glb_size)
       THEN /\ blender_completed' = TRUE
            /\ how' = "stable"
            /\ cpc' = "after_loop"
       ELSE /\ UNCHANGED <<blender_completed, how>>
            /\ cpc' = "sleep"
    /\ UNCHANGED <<tool, waited_time, obs_flag, obs_exists, glb_size, flag_file,
                   script_file, out_exists, out_size, proc, conv_result>>
    /\ UNCHANGED NotConv

\* Mutant: the pass sleeps but does not count.
ConvSleep_NoIncrement ==
    /\ cpc = "sleep"
    /\ cpc' = "poll"
    /\ UNCHANGED <<tool, waited_time, blender_completed, obs_flag, obs_exists, glb_size,
                   new_glb_size, how, flag_file, script_file, out_exists, out_size,
                   proc, conv_result>>
    /\ UNCHANGED NotConv

\* time.sleep(wait_interval); waited_time += 1
ConvSleep ==
    /\ cpc = "sleep"
    /\ waited_time' = waited_time + 1
    /\ cpc' = "poll"
    /\ UNCHANGED <<tool, blender_completed, obs_flag, obs_exists, glb_size, new_glb_size,
                   how, flag_file, script_file, out_exists, out_size, proc, conv_result>>
    /\ UNCHANGED NotConv

\* The while condition fails: the loop ends without completion.
ConvLoopEnd ==
    /\ cpc = "poll"
    /\ ~(waited_time < max_wait_time)
    /\ cpc' = "after_loop"
    /\ UNCHANGED <<tool, waited_time, blender_completed, obs_flag, obs_exists, glb_size,
                   new_glb_size, how, flag_file, script_file, out_exists, out_size,
                   proc, conv_result>>
    /\ UNCHANGED NotConv

\* After the loop: "if not blender_completed" the timeout termination pass;
\* then the script and the flag file are removed.
ConvCleanup ==
    /\ cpc = "after_loop"
    /\ proc' = (IF ~blender_completed THEN TimeoutTerminate(proc) ELSE proc)
    /\ script_file' = RemoveFile(script_file)
    /\ flag_file' = (IF flag_file THEN RemoveFile(flag_file) ELSE flag_file)
    /\ cpc' = "final_check"
    /\ UNCHANGED <<tool, waited_time, blender_completed, obs_flag, obs_exists, glb_size,
                   new_glb_size, how, out_exists, out_size, conv_result>>
    /\ UNCHANGED NotConv

\* "if os.path.exists(out) and os.path.getsize(out) > 0: return"; otherwise the
\* failure branch terminates the job's processes and falls through to trimesh.
ConvFinalCheck ==
    /\ cpc = "final_check"
    /\ IF OutputValid(out_exists, out_size)
       THEN /\ conv_result' = "blender"
            /\ cpc' = "done"
            /\ UNCHANGED proc
       ELSE /\ proc' = FailureTerminate(proc)
            /\ cpc' = "trimesh"
            /\ UNCHANGED conv_result
    /\ UNCHANGED <<tool, waited_time, blender_completed, obs_flag, obs_exists, glb_size,
                   new_glb_size, how, flag_file, script_file, out_exists, out_size>>
    /\ UNCHANGED NotConv

\* The in-process fallback: trimesh.load + mesh.export; any exception becomes
\* RuntimeError("... conversion failed").
ConvTrimesh ==
    /\ cpc = "trimesh"
    /\ \E ok \in BOOLEAN :
         IF ok THEN /\ out_exists' = TRUE
                    /\ out_size' = 1
                    /\ conv_result' = "trimesh"
               ELSE /\ UNCHANGED <<out_exists, out_size>>
                    /\ conv_result' = "raised"
    /\ cpc' = "done"
    /\ UNCHANGED <<tool, waited_time, blender_completed, obs_flag, obs_exists, glb_size,
                   new_glb_size, how, flag_file, script_file, proc>>
    /\ UNCHANGED NotConv

\* ---- the detached tool process (the generated Blender script)
BlenderWriteOutput ==
    /\ proc = "running"
    /\ cpc # "done"
    /\ out_size < MaxSize
    /\ out_exists' = TRUE
    /\ out_size' = out_size + 1
    /\ UNCHANGED <<tool, cpc, waited_time, blender_completed, obs_flag, obs_exists,
                   glb_size, new_glb_size, how, flag_file, script_file, proc, conv_result>>
    /\ UNCHANGED NotConv

\* write_done_flag(): called once, as the last thing the script does before
\* it ends (with or without an output written).
BlenderWriteFlag ==
    /\ proc = "running"
    /\ cpc # "done"
    /\ flag_file' = TRUE
    /\ proc' = "finishing"
    /\ UNCHANGED <<tool, cpc, waited_time, blender_completed, obs_flag, obs_exists,
                   glb_size, new_glb_size, how, script_file, out_exists, out_size,
                   conv_result>>
    /\ UNCHANGED NotConv

BlenderExit ==
    /\ proc \in {"running", "finishing"}
    /\ cpc # "done"
    /\ proc' = "exited"
    /\ UNCHANGED <<tool, cpc, waited_time, blender_completed, obs_flag, obs_exists,
                   glb_size, new_glb_size, how, flag_file, script_file, out_exists,
                   out_size, conv_result>>
    /\ UNCHANGED NotConv

ConvNext ==
    \/ ConvNoBlender
    \/ ConvLaunch
    \/ ConvLaunchRaises
    \/ ConvPoll
    \/ ConvRecheck
    \/ ConvSleep
    \/ ConvLoopEnd
    \/ ConvCleanup
    \/ ConvFinalCheck
    \/ ConvTrimesh
    \/ BlenderWriteOutput
    \/ BlenderWriteFlag
    \/ BlenderExit

SpecConv == ConvInit /\ [][ConvNext]_vars

(***************************************************************************)
(* Claims about the converter coordinator                                  *)
(***************************************************************************)
\* What one poll saw when it took the flag branch: flag, output, non-empty,
\* and no follow-up size check.
SawFlagComplete ==
    obs_flag /\ obs_exists /\ glb_size > 0 /\ new_glb_size = -1

\* What one poll saw when it took the stable-output branch: no flag, output
\* non-empty after more than 30 ticks, same size on the follow-up check.
SawStableOutput ==
    ~obs_flag /\ obs_exists /\ glb_size > 0 /\ waited_time > 30 /\ new_glb_size = glb_size

TimedOut == ~blender_completed /\ waited_time >= max_wait_time

\* C2: when the polling loop ends without completion, no process of this job
\* is still running by the time the call returns.
C2_NoProcessAfterTimeout ==
    (cpc = "done" /\ TimedOut) => proc \notin {"running", "finishing"}

C20_InLoop == cpc \in {"poll", "recheck", "sleep"}

C20_Rank ==
    3 * (max_wait_time - waited_time)
        + (CASE cpc = "poll" -> 2 [] cpc = "recheck" -> 1 [] OTHER -> 0)

\* C20: whatever the tool process does, the polling loop ends after at most
\* max_wait_time ticks: the counter never passes max_wait_time, every step of
\* the loop either leaves it or brings it nearer its end, and it is left
\* with completion declared or with the counter at max_wait_time.
C20_LoopTerminates ==
    /\ [](waited_time \in 0..max_wait_time)
    /\ []((cpc = "after_loop") => (blender_completed \/ waited_time = max_wait_time))
    /\ [][(C20_InLoop /\ cpc' # cpc) =>
             \/ cpc' = "after_loop"
             \/ (C20_InLoop' /\ C20_Rank' < C20_Rank /\ C20_Rank' >= 0)]_vars

\* C20 witness: the loop ran out with the tool still running, no flag written
\* and an output file that was never seen with a stable size.
C20_Witness ==
    /\ cpc = "after_loop"
    /\ ~blender_completed
    /\ waited_time = max_wait_time
    /\ proc = "running"
    /\ ~flag_file
    /\ out_exists
    /\ out_size < MaxSize

\* C17: on success and on timeout alike, when the converter call returns or
\* raises, the completion flag file and the driver script are gone.
C17_FlagAndScriptRemoved ==
    (cpc = "done" /\ (blender_completed \/ TimedOut)) => (~flag_file /\ ~script_file)

Operations == {"auto", "simplify", "remesh", "other"}

\* The meshes a staged OBJ file can hold.  An unparseable file is the one
\* record with loadable = FALSE; trimesh reports an empty mesh as not
\* watertight, and a mesh with faces has vertices.
Meshes ==
    {NoMesh} \cup
    {m \in [loadable : {TRUE}, faces : 0..MaxFaces, vertices : 0..1, watertight : BOOLEAN] :
        /\ m.watertight => m.faces > 0
        /\ m.faces > 0 => m.vertices > 0}

\* check_mesh_quality: the report, or {"error": ...} when trimesh.load raises.
check_mesh_quality(m) ==
    IF ~m.loadable
    THEN [error |-> TRUE]
    ELSE [error |-> FALSE,
          faces |-> m.faces,
          vertices |-> m.vertices,
          watertight |-> m.watertight,
          issues |-> (IF ~m.watertight THEN {"Not watertight (has holes)"} ELSE {})
                     \cup (IF m.faces = 0 THEN {"No faces"} ELSE {})
                     \cup (IF m.vertices = 0 THEN {"No vertices"} ELSE {})]

\* quality.get("faces", 0), .get("watertight", False), .get("issues", [])
GetFaces(q) == IF q.error THEN 0 ELSE q.faces
GetWatertight(q) == IF q.error THEN FALSE ELSE q.watertight
GetIssues(q) == IF q.error THEN {} ELSE q.issues

\* Mutant: auto mode with the branches swapped.
SelectOperation_Swapped(op, q) ==
    IF op = "auto"
    THEN (IF GetWatertight(q) /\ ~(Cardinality(GetIssues(q)) > 0) THEN "remesh" ELSE "simplify")
    ELSE op

\* Step 3 of process_model: the strategy.
SelectOperation(op, q) ==
    IF op = "auto"
    THEN (IF GetWatertight(q) /\ ~(Cardinality(GetIssues(q)) > 0) THEN "simplify" ELSE "remesh")
    ELSE op

\* Mutant: the no-op test as a strict comparison.
NeedsNoProcessing_Strict(of, tf) == of < tf

\* Step 4 of process_model: "if original_faces <= target_faces".
NeedsNoProcessing(of, tf) == of <= tf

\* What simplify_with_uv_preservation can hand back for mesh m: the input path
\* (load failure, nothing to do, a failed collapse or save), or a new file
\* holding some number of faces.
SimplifyResults(m, tf) ==
    {[obj |-> "obj_in", mesh |-> m]} \cup
    (IF m.loadable /\ m.faces > tf
     THEN {[obj |-> "simplified",
            mesh |-> [loadable |-> TRUE, faces |-> f, vertices |-> m.vertices,
                      watertight |-> (m.watertight /\ f > 0)]] :
              f \in 0..m.faces}
     ELSE {})

\* What Instant Meshes writes to temp_output when it exits with 0.
RemeshResults(m) ==
    {[loadable |-> l, faces |-> f, vertices |-> 1, watertight |-> FALSE] :
        l \in BOOLEAN, f \in {0, 1}}

\* Step 5, simplify branch: simplify_with_uv_preservation, then
\* restore_obj_material on its result.
SimplifyStages == <<"decimate", "relink">>

\* Mutant: the materials are relinked before the retopology tool has written
\* the new mesh.
RemeshStages_RelinkFirst == <<"repair", "relink", "retopo">>

\* Step 5, remesh branch: repair_mesh_with_pymeshlab, run_instant_meshes, then
\* restore_obj_material on the tool's output.
RemeshStages == <<"repair", "retopo", "relink">>

\* An exception inside the try block: the except clause removes the temp
\* files, empties the scratch directory and re-raises.
PMRaise(err) ==
    /\ ppc' = "done"
    /\ pm_result' = "raised"
    /\ pm_error' = err
    /\ cleaned' = cleaned + 1

PMInit ==
    /\ ppc = "start"
    /\ target_faces \in -1..MaxTarget
    /\ operation \in Operations
    /\ mesh \in Meshes
    /\ original_quality = [error |-> TRUE]
    /\ original_faces = 0
    /\ actual_operation = "none"
    /\ final_obj = "none"
    /\ final_mesh = NoMesh
    /\ final_faces = 0
    /\ stages = <<>>
    /\ cleaned = 0
    /\ pm_result = "none"
    /\ pm_error = "none"
    /\ ConvIdle
    /\ DecIdle
    /\ RLIdle
    /\ WSIdle
    /\ IMIdle
    /\ DLIdle

\* clean_temp_directory(), then step 1: the input is staged into the scratch
\* directory (copy, download or GLB conversion).
PMStage ==
    /\ ppc = "start"
    /\ cleaned' = cleaned + 1
    /\ ppc' = "staged"
    /\ UNCHANGED <<target_faces, operation, mesh, original_quality, original_faces,
                   actual_operation, final_obj, final_mesh, final_faces, stages,
                   pm_result, pm_error>>
    /\ UNCHANGED NotPM

\* Staging raises (download failed, input missing, GLB conversion failed).
PMStageRaises ==
    /\ ppc = "start"
    /\ ppc' = "done"
    /\ pm_result' = "raised"
    /\ pm_error' = "staging"
    /\ cleaned' = cleaned + 2
    /\ UNCHANGED <<target_faces, operation, mesh, original_quality, original_faces,
                   actual_operation, final_obj, final_mesh, final_faces, stages>>
    /\ UNCHANGED NotPM

\* Step 2: quality inspection of the staged mesh.
PMInspect ==
    /\ ppc = "staged"
    /\ original_quality' = check_mesh_quality(mesh)
    /\ original_faces' = GetFaces(check_mesh_quality(mesh))
    /\ stages' = Append(stages, "inspect")
    /\ ppc' = "inspected"
    /\ UNCHANGED <<target_faces, operation, mesh, actual_operation, final_obj, final_mesh,
                   final_faces, cleaned, pm_result, pm_error>>
    /\ UNCHANGED NotPM

\* Step 3: strategy selection.
PMSelect ==
    /\ ppc = "inspected"
    /\ actual_operation' = SelectOperation(operation, original_quality)
    /\ stages' = Append(stages, "select")
    /\ ppc' = "selected"
    /\ UNCHANGED <<target_faces, operation, mesh, original_quality, original_faces,
                   final_obj, final_mesh, final_faces, cleaned, pm_result, pm_error>>
    /\ UNCHANGED NotPM

\* Step 4: nothing to do, final_obj = obj_in.
PMNoOp ==
    /\ ppc = "selected"
    /\ NeedsNoProcessing(original_faces, target_faces)
    /\ final_obj' = "obj_in"
    /\ final_mesh' = mesh
    /\ ppc' = "processed"
    /\ UNCHANGED <<target_faces, operation, mesh, original_quality, original_faces,
                   actual_operation, final_faces, stages, cleaned, pm_result, pm_error>>
    /\ UNCHANGED NotPM

\* Step 5, simplify: simplify_with_uv_preservation, then restore_obj_material;
\* an exception of either becomes RuntimeError("Simplify operation failed").
PMSimplify ==
    /\ ppc = "selected"
    /\ ~NeedsNoProcessing(original_faces, target_faces)
    /\ actual_operation = "simplify"
    /\ \E outcome \in {"ok", "decimate_raises", "relink_raises"} :
         CASE outcome = "ok" ->
                \E r \in SimplifyResults(mesh, target_faces) :
                    /\ final_obj' = r.obj
                    /\ final_mesh' = r.mesh
                    /\ stages' = stages \o SimplifyStages
                    /\ ppc' = "processed"
                    /\ UNCHANGED <<cleaned, pm_result, pm_error>>
           [] outcome = "decimate_raises" ->
                /\ mesh.loadable
                /\ stages' = Append(stages, "decimate")
                /\ PMRaise("RuntimeError: Simplify operation failed")
                /\ UNCHANGED <<final_obj, final_mesh>>
           [] outcome = "relink_raises" ->
                /\ stages' = stages \o SimplifyStages
                /\ PMRaise("RuntimeError: Simplify operation failed")
                /\ UNCHANGED <<final_obj, final_mesh>>
    /\ UNCHANGED <<target_faces, operation, mesh, original_quality, original_faces,
                   actual_operation, final_faces>>
    /\ UNCHANGED NotPM

\* Step 5, remesh (every other strategy): repair (its failure is only logged),
\* run_instant_meshes, restore_obj_material.
PMRemesh ==
    /\ ppc = "selected"
    /\ ~NeedsNoProcessing(original_faces, target_faces)
    /\ actual_operation # "simplify"
    /\ \E outcome \in {"ok", "retopo_raises", "relink_raises"} :
         CASE outcome = "ok" ->
                \E m \in RemeshResults(mesh) :
                    /\ final_obj' = "remeshed"
                    /\ final_mesh' = m
                    /\ stages' = stages \o RemeshStages
                    /\ ppc' = "processed"
                    /\ UNCHANGED <<cleaned, pm_result, pm_error>>
           [] outcome = "retopo_raises" ->
                /\ stages' = stages \o <<"repair", "retopo">>
                /\ PMRaise("CalledProcessError")
                /\ UNCHANGED <<final_obj, final_mesh>>
           [] outcome = "relink_raises" ->
                /\ stages' = stages \o RemeshStages
                /\ PMRaise("IndexError")
                /\ UNCHANGED <<final_obj, final_mesh>>
    /\ UNCHANGED <<target_faces, operation, mesh, original_quality, original_faces,
                   actual_operation, final_faces>>
    /\ UNCHANGED NotPM

\* Step 6: quality of the result, and the log line
\* f"Reduction ratio: {final_faces/original_faces:.2%}".
PMFinalQuality ==
    /\ ppc = "processed"
    /\ final_faces' = GetFaces(check_mesh_quality(final_mesh))
    /\ IF original_faces = 0
       THEN PMRaise("ZeroDivisionError")
       ELSE /\ ppc' = "convert"
            /\ UNCHANGED <<cleaned, pm_result, pm_error>>
    /\ UNCHANGED <<target_faces, operation, mesh, original_quality, original_faces,
                   actual_operation, final_obj, final_mesh, stages>>
    /\ UNCHANGED NotPM

\* Steps 7-8: textures gathered, obj_to_glb(final_obj, temp_glb).
PMConvert ==
    /\ ppc = "convert"
    /\ stages' = Append(stages, "convert")
    /\ \E ok \in BOOLEAN :
         IF ok THEN /\ ppc' = "archive"
                    /\ UNCHANGED <<cleaned, pm_result, pm_error>>
               ELSE PMRaise("RuntimeError: OBJ to GLB conversion failed")
    /\ UNCHANGED <<target_faces, operation, mesh, original_quality, original_faces,
                   actual_operation, final_obj, final_mesh, final_faces>>
    /\ UNCHANGED NotPM

\* Steps 9-11: move to the output directory, archive, cleanup, return.
PMFinish ==
    /\ ppc = "archive"
    /\ \E ok \in BOOLEAN :
         IF ok THEN /\ ppc' = "done"
                    /\ pm_result' = "returned"
                    /\ cleaned' = cleaned + 1
                    /\ UNCHANGED pm_error
               ELSE PMRaise("RuntimeError: Failed to create archive")
    /\ UNCHANGED <<target_faces, operation, mesh, original_quality, original_faces,
                   actual_operation, final_obj, final_mesh, final_faces, stages>>
    /\ UNCHANGED NotPM

PMNext ==
    \/ PMStage
    \/ PMStageRaises
    \/ PMInspect
    \/ PMSelect
    \/ PMNoOp
    \/ PMSimplify
    \/ PMRemesh
    \/ PMFinalQuality
    \/ PMConvert
    \/ PMFinish

SpecPM == PMInit /\ [][PMNext]_vars

(***************************************************************************)
(* Claims about process_model                                              *)
(***************************************************************************)
StageSet == {stages[i] : i \in 1..Len(stages)}

\* C4: for every loaded input mesh with face_count <= target_faces (0
\* included) process_model takes the no-op path: no decimation, repair,
\* retopology or relink runs, the mesh handed to conversion is the staged
\* input unchanged, and the request returns an output path; only a failure of
\* the later conversion or packaging can make it raise.
C4_NoOpReturns ==
    (ppc = "done" /\ ~original_quality.error /\ original_quality.faces <= target_faces)
        => /\ StageSet \cap {"decimate", "repair", "retopo", "relink"} = {}
           /\ final_obj = "obj_in"
           /\ final_mesh = mesh
           /\ pm_result = "raised" =>
                  pm_error \in {"RuntimeError: OBJ to GLB conversion failed",
                                "RuntimeError: Failed to create archive"}

\* C5: with face_count > target_faces the strategy is the decision table: auto
\* gives simplify iff the report is watertight with no issues, else remesh; an
\* explicit simplify or remesh is taken as requested; and the branch that runs
\* is the one chosen.
C5_StrategyTable ==
    ("select" \in StageSet /\ original_faces > target_faces
        /\ operation \in {"auto", "simplify", "remesh"})
        => /\ actual_operation =
                (IF operation = "auto"
                 THEN (IF /\ ~original_quality.error
                          /\ original_quality.watertight
                          /\ original_quality.issues = {}
                       THEN "simplify" ELSE "remesh")
                 ELSE operation)
           /\ "decimate" \in StageSet => actual_operation = "simplify"
           /\ "retopo" \in StageSet => actual_operation = "remesh"
           /\ ppc = "processed" =>
                  (("decimate" \in StageSet) \/ ("retopo" \in StageSet))

\* C5 witness: auto mode chose simplify for a watertight mesh above the target
\* and the decimator ran.
C5_Witness ==
    /\ ppc = "processed"
    /\ operation = "auto"
    /\ mesh.watertight
    /\ original_faces > target_faces
    /\ actual_operation = "simplify"
    /\ "decimate" \in StageSet

\* C7: when the staged mesh cannot be parsed, process_model does not go on to
\* strategy selection or later stages: it ends by raising the load failure.
C7_LoadErrorIsFatal ==
    (~mesh.loadable /\ "inspect" \in StageSet)
        => (ppc = "done" /\ pm_result = "raised" /\ pm_error = "LoadError")

IsPrefix(a, b) == Len(a) <= Len(b) /\ \A i \in 1..Len(a) : a[i] = b[i]

\* C18: in a run that rewrites the mesh the stages are invoked one after the
\* other in the order inspection, selection, decimation (or repair then
\* retopology), relinking, conversion: each stage at most once, relinking
\* after the rewrite and before the conversion.
C18_StageOrder ==
    /\ ("decimate" \in StageSet \/ "retopo" \in StageSet) =>
          \/ IsPrefix(stages, <<"inspect", "select", "decimate", "relink", "convert">>)
          \/ IsPrefix(stages, <<"inspect", "select", "repair", "retopo", "relink", "convert">>)
    /\ ("convert" \in StageSet /\ final_obj \in {"simplified", "remeshed"}) =>
          "relink" \in StageSet
    /\ IsPrefix(stages, <<"inspect", "select">>)
          \/ (Len(stages) >= 2 /\ stages[1] = "inspect" /\ stages[2] = "select")

\* C18 witness: a remesh run went through every stage and returned.
C18_Witness ==
    /\ ppc = "done"
    /\ pm_result = "returned"
    /\ final_obj = "remeshed"
    /\ stages = <<"inspect", "select", "repair", "retopo", "relink", "convert">>

(***************************************************************************)
(* simplify_with_uv_preservation / progressive_simplify                    *)
(***************************************************************************)
Max(a, b) == IF a >= b THEN a ELSE b

DecInputs == [loads : BOOLEAN, faces : 0..MaxDFaces, texcoords : BOOLEAN]

\* What one meshing_decimation_quadric_edge_collapse call can do: raise, or
\* leave the mesh with some face count (the code trusts none of it: it
\* re-reads face_number() and tests for stalled, rising and <= 0 counts).
CollapseResults ==
    {[raised |-> TRUE, faces |-> 0]} \cup
    {[raised |-> FALSE, faces |-> f] : f \in 0..MaxDFaces}

\* Mutant: every ratio test compares with 0.5, whatever threshold it names.
RatioBelow_Half(tf, of, num, den) == 2 * tf < of

\* reduction_ratio = target_faces / original_faces compared with num/den.
RatioBelow(tf, of, num, den) == den * tf < num * of

\* Mutant: each step aims at half of the remaining faces.
NextTarget_Half(cur, tf) == Max(tf, cur \div 2)

\* next_target = max(target_faces, int(current_faces * 0.6))
NextTarget(cur, tf) == Max(tf, (cur * 6) \div 10)

\* Mutant: the intermediate collapse aims at 60% like a progressive step.
IntermediateTarget_Sixty(of) == (of * 6) \div 10

\* intermediate_target = int(original_faces * 0.5)
IntermediateTarget(of) == of \div 2

\* boundaryweight=2.0 if preserve_boundaries else 1.0
BoundaryWeight(pb) == IF pb THEN 2 ELSE 1

\* Mutant: the while condition without the step cap.
LoopContinues_NoCap(cur, tf, st) == 10 * cur > 11 * tf

\* while current_faces > target_faces * 1.1 and step <= max_steps
LoopContinues(cur, tf, st) == 10 * cur > 11 * tf /\ st <= max_steps

\* Mutant: the stall test only catches a rising count.
Stuck_OnlyRising(cur, prev) == cur > prev

\* if current_faces >= prev_faces * 0.95: break
Stuck(cur, prev) == 100 * cur >= 95 * prev

\* if current_faces <= 0: break
Corrupt(cur) == cur <= 0

\* if current_faces <= target_faces * 1.05: break
CloseEnough(cur, tf) == 100 * cur <= 105 * tf

\* The step-1 cleanup (duplicate vertices, duplicate faces, null faces); its
\* exceptions are passed over.
PreClean(f, st) == IF st = 1 THEN {f, Max(f - 1, 0)} ELSE {f}

\* One meshing_decimation_quadric_edge_collapse request is issued.
Request(c) ==
    /\ first_call' = (IF ncalls = 0 THEN c ELSE first_call)
    /\ last_call' = c
    /\ ncalls' = ncalls + 1

NoRequest == UNCHANGED <<first_call, last_call, ncalls>>

\* A call returns the unmodified input path.
DecReturnInput ==
    /\ d_result' = "input_path"
    /\ saved_faces' = d_input.faces
    /\ dpc' = "done"

DecInit ==
    /\ dpc = "start"
    /\ d_input \in DecInputs
    /\ d_target \in 0..MaxDTarget
    /\ preserve_boundaries \in BOOLEAN
    /\ preserve_uv \in BOOLEAN
    /\ ms_faces = 0
    /\ current_faces = 0
    /\ prev_faces = 0
    /\ step = 0
    /\ exit_reason = "none"
    /\ first_call = NoCall
    /\ last_call = NoCall
    /\ ncalls = 0
    /\ d_result = "none"
    /\ saved_faces = 0
    /\ ConvIdle
    /\ PMIdle
    /\ RLIdle
    /\ WSIdle
    /\ IMIdle
    /\ DLIdle

\* simplify_with_uv_preservation: load, the <= target test, the texcoord test.
DecLoad ==
    /\ dpc = "start"
    /\ IF ~d_input.loads \/ d_input.faces <= d_target
       THEN /\ DecReturnInput
            /\ ms_faces' = (IF d_input.loads THEN d_input.faces ELSE ms_faces)
       ELSE /\ ms_faces' = d_input.faces
            /\ dpc' = (IF d_input.texcoords THEN "uv" ELSE "prog")
            /\ UNCHANGED <<d_result, saved_faces>>
    /\ UNCHANGED <<d_input, d_target, preserve_boundaries, preserve_uv, current_faces, prev_faces,
                   step, exit_reason>>
    /\ NoRequest
    /\ UNCHANGED NotDec

\* progressive_simplify: reduction_ratio < 0.5 enters the loop.
DecProgEnter ==
    /\ dpc = "prog"
    /\ IF RatioBelow(d_target, d_input.faces, 1, 2)
       THEN /\ current_faces' = d_input.faces
            /\ step' = 1
            /\ dpc' = "loop"
       ELSE /\ dpc' = "single"
            /\ UNCHANGED <<current_faces, step>>
    /\ UNCHANGED <<d_input, d_target, preserve_boundaries, preserve_uv, ms_faces, prev_faces,
                   exit_reason, d_result, saved_faces>>
    /\ NoRequest
    /\ UNCHANGED NotDec

\* progressive_simplify, reduction_ratio >= 0.5: one collapse to target_faces.
DecSingle ==
    /\ dpc = "single"
    /\ Request([fn |-> "single", target |-> d_target,
                               weight |-> BoundaryWeight(preserve_boundaries)])
    /\ \E r \in CollapseResults :
         IF r.raised
         THEN /\ DecReturnInput
              /\ UNCHANGED ms_faces
         ELSE /\ ms_faces' = r.faces
              /\ dpc' = "save"
              /\ UNCHANGED <<d_result, saved_faces>>
    /\ UNCHANGED <<d_input, d_target, preserve_boundaries, preserve_uv, current_faces, prev_faces,
                   step, exit_reason>>
    /\ UNCHANGED NotDec

\* The while condition is false.
DecLoopExit ==
    /\ dpc = "loop"
    /\ ~LoopContinues(current_faces, d_target, step)
    /\ exit_reason' = (IF step > max_steps THEN "step_cap" ELSE "condition")
    /\ dpc' = "final"
    /\ UNCHANGED <<d_input, d_target, preserve_boundaries, preserve_uv, ms_faces, current_faces,
                   prev_faces, step, d_result, saved_faces>>
    /\ NoRequest
    /\ UNCHANGED NotDec

\* time.time() - start_time > timeout_seconds: break.
DecLoopTimeout ==
    /\ dpc = "loop"
    /\ LoopContinues(current_faces, d_target, step)
    /\ exit_reason' = "timeout"
    /\ dpc' = "final"
    /\ UNCHANGED <<d_input, d_target, preserve_boundaries, preserve_uv, ms_faces, current_faces,
                   prev_faces, step, d_result, saved_faces>>
    /\ NoRequest
    /\ UNCHANGED NotDec

\* One pass of the loop body: next_target, the step-1 cleanup, the collapse,
\* current_faces re-read, step += 1, then the three safety breaks in order.
DecStep ==
    /\ dpc = "loop"
    /\ LoopContinues(current_faces, d_target, step)
    /\ prev_faces' = current_faces
    /\ Request([fn |-> "step", target |-> NextTarget(current_faces, d_target),
                               weight |-> BoundaryWeight(preserve_boundaries)])
    /\ \E pre \in PreClean(ms_faces, step), r \in CollapseResults :
         IF r.raised
         THEN /\ ms_faces' = pre
              /\ exit_reason' = "failed"
              /\ dpc' = "final"
              /\ UNCHANGED <<current_faces, step>>
         ELSE /\ ms_faces' = r.faces
              /\ current_faces' = r.faces
              /\ step' = step + 1
              /\ exit_reason' =
                    (IF Stuck(r.faces, current_faces) THEN "stuck"
                     ELSE IF Corrupt(r.faces) THEN "corrupt"
                     ELSE IF CloseEnough(r.faces, d_target) THEN "close"
                     ELSE "none")
              /\ dpc' =
                    (IF Stuck(r.faces, current_faces) \/ Corrupt(r.faces)
                        \/ CloseEnough(r.faces, d_target)
                     THEN "final" ELSE "loop")
    /\ UNCHANGED <<d_input, d_target, preserve_boundaries, preserve_uv, d_result, saved_faces>>
    /\ UNCHANGED NotDec

\* Mutant: the loop's result is saved as it stands, no collapse after the loop.
DecFinal_NoCollapse ==
    /\ dpc = "final"
    /\ dpc' = "save"
    /\ UNCHANGED <<d_input, d_target, preserve_boundaries, preserve_uv, ms_faces, current_faces,
                   prev_faces, step, exit_reason, d_result, saved_faces>>
    /\ NoRequest
    /\ UNCHANGED NotDec

\* Mutant: the collapse after the loop is skipped when the loop ended on a
\* stalled or an invalid step.
DecFinal_SkipAfterStuck ==
    /\ dpc = "final"
    /\ IF current_faces > d_target /\ exit_reason \notin {"stuck", "corrupt"}
       THEN /\ Request([fn |-> "final", target |-> d_target,
                                       weight |-> BoundaryWeight(preserve_boundaries)])
            /\ \E r \in CollapseResults :
                 ms_faces' = (IF r.raised THEN ms_faces ELSE r.faces)
       ELSE /\ NoRequest
            /\ UNCHANGED ms_faces
    /\ dpc' = "save"
    /\ UNCHANGED <<d_input, d_target, preserve_boundaries, preserve_uv, current_faces, prev_faces,
                   step, exit_reason, d_result, saved_faces>>
    /\ UNCHANGED NotDec

\* After the loop: "if current_faces > target_faces" one more collapse to
\* target_faces; its exception is passed over.
DecFinal ==
    /\ dpc = "final"
    /\ IF current_faces > d_target
       THEN /\ Request([fn |-> "final", target |-> d_target,
                                       weight |-> BoundaryWeight(preserve_boundaries)])
            /\ \E r \in CollapseResults :
                 ms_faces' = (IF r.raised THEN ms_faces ELSE r.faces)
       ELSE /\ NoRequest
            /\ UNCHANGED ms_faces
    /\ dpc' = "save"
    /\ UNCHANGED <<d_input, d_target, preserve_boundaries, preserve_uv, current_faces, prev_faces,
                   step, exit_reason, d_result, saved_faces>>
    /\ UNCHANGED NotDec

\* progressive_simplify: ms.save_current_mesh(simplified_path), outside any try.
DecSave ==
    /\ dpc = "save"
    /\ \E ok \in BOOLEAN :
         IF ok THEN /\ d_result' = "simplified"
                    /\ saved_faces' = ms_faces
               ELSE /\ d_result' = "raised"
                    /\ UNCHANGED saved_faces
    /\ dpc' = "done"
    /\ UNCHANGED <<d_input, d_target, preserve_boundaries, preserve_uv, ms_faces, current_faces,
                   prev_faces, step, exit_reason>>
    /\ NoRequest
    /\ UNCHANGED NotDec

\* UV path, reduction_ratio < 0.3: the first collapse, to 50% of the faces.
DecUVPhase1 ==
    /\ dpc = "uv"
    /\ RatioBelow(d_target, d_input.faces, 3, 10)
    /\ Request([fn |-> "uv_phase1",
                               target |-> IntermediateTarget(d_input.faces), weight |-> 3])
    /\ \E r \in CollapseResults :
         IF r.raised
         THEN /\ dpc' = "uv_fallback"
              /\ UNCHANGED ms_faces
         ELSE /\ dpc' = "uv_phase2"
              /\ ms_faces' = r.faces
    /\ UNCHANGED <<d_input, d_target, preserve_boundaries, preserve_uv, current_faces, prev_faces,
                   step, exit_reason, d_result, saved_faces>>
    /\ UNCHANGED NotDec

\* UV path: the first collapse raised; one collapse to target_faces with
\* preservetopology=False; if that raises too, the input path is returned.
DecUVFallback ==
    /\ dpc = "uv_fallback"
    /\ Request([fn |-> "uv_fallback", target |-> d_target, weight |-> 2])
    /\ \E r \in CollapseResults :
         IF r.raised
         THEN /\ DecReturnInput
              /\ UNCHANGED ms_faces
         ELSE /\ dpc' = "uv_save"
              /\ ms_faces' = r.faces
              /\ UNCHANGED <<d_result, saved_faces>>
    /\ UNCHANGED <<d_input, d_target, preserve_boundaries, preserve_uv, current_faces, prev_faces,
                   step, exit_reason>>
    /\ UNCHANGED NotDec

\* UV path: the second collapse, to target_faces; its exception is passed over.
DecUVPhase2 ==
    /\ dpc = "uv_phase2"
    /\ Request([fn |-> "uv_phase2", target |-> d_target, weight |-> 3])
    /\ \E r \in CollapseResults :
         ms_faces' = (IF r.raised THEN ms_faces ELSE r.faces)
    /\ dpc' = "uv_save"
    /\ UNCHANGED <<d_input, d_target, preserve_boundaries, preserve_uv, current_faces, prev_faces,
                   step, exit_reason, d_result, saved_faces>>
    /\ UNCHANGED NotDec

\* UV path, reduction_ratio >= 0.3: one collapse to target_faces.
DecUVSingle ==
    /\ dpc = "uv"
    /\ ~RatioBelow(d_target, d_input.faces, 3, 10)
    /\ Request([fn |-> "uv_single", target |-> d_target, weight |-> 2])
    /\ \E r \in CollapseResults :
         IF r.raised
         THEN /\ DecReturnInput
              /\ UNCHANGED ms_faces
         ELSE /\ dpc' = "uv_save"
              /\ ms_faces' = r.faces
              /\ UNCHANGED <<d_result, saved_faces>>
    /\ UNCHANGED <<d_input, d_target, preserve_boundaries, preserve_uv, current_faces, prev_faces,
                   step, exit_reason>>
    /\ UNCHANGED NotDec

\* UV path: save inside try; a failure returns the input path.
DecUVSave ==
    /\ dpc = "uv_save"
    /\ \E ok \in BOOLEAN :
         IF ok THEN /\ d_result' = "simplified"
                    /\ saved_faces' = ms_faces
                    /\ dpc' = "done"
               ELSE DecReturnInput
    /\ UNCHANGED <<d_input, d_target, preserve_boundaries, preserve_uv, ms_faces, current_faces,
                   prev_faces, step, exit_reason>>
    /\ NoRequest
    /\ UNCHANGED NotDec

DecNext ==
    \/ DecLoad
    \/ DecProgEnter
    \/ DecSingle
    \/ DecLoopExit
    \/ DecLoopTimeout
    \/ DecStep
    \/ DecFinal
    \/ DecSave
    \/ DecUVPhase1
    \/ DecUVFallback
    \/ DecUVPhase2
    \/ DecUVSingle
    \/ DecUVSave

SpecDec == DecInit /\ [][DecNext]_vars

(***************************************************************************)
(* Claims about the decimator                                              *)
(***************************************************************************)
\* C6: decimation never raises for a mesh that loaded: whatever step fails (a
\* collapse, the cleanup, the save), the call hands back a mesh file.
C6_NeverRaises ==
    (dpc = "done" /\ d_input.loads) => d_result \in {"input_path", "simplified"}

C12_TwoPhaseCase ==
    /\ d_input.loads
    /\ d_input.texcoords
    /\ d_input.faces > d_target
    /\ 10 * d_target < 3 * d_input.faces

\* C12: in the two-phase case the first collapse requested is the intermediate
\* one, to floor(0.5 * original_faces); exactly one more is requested after
\* it, to target_faces; and the call ends without raising, returning either
\* the mesh as the last successful collapse left it or the input path.
C12_TwoPhaseOrder ==
    C12_TwoPhaseCase =>
        /\ ncalls >= 1 =>
               /\ first_call.fn = "uv_phase1"
               /\ 2 * first_call.target <= d_input.faces
               /\ 2 * first_call.target + 1 >= d_input.faces
        /\ ncalls <= 2
        /\ ncalls = 2 =>
               (last_call.fn \in {"uv_phase2", "uv_fallback"} /\ last_call.target = d_target)
        /\ dpc = "done" =>
               /\ ncalls = 2
               /\ d_result \in {"simplified", "input_path"}
               /\ d_result = "simplified" => saved_faces = ms_faces
               /\ d_result = "input_path" => saved_faces = d_input.faces

\* C12 witness: both phases ran and the saved mesh is within 5% of the target.
C12_Witness ==
    /\ C12_TwoPhaseCase
    /\ dpc = "done"
    /\ first_call.fn = "uv_phase1"
    /\ last_call.fn = "uv_phase2"
    /\ d_result = "simplified"
    /\ saved_faces > 0
    /\ 100 * saved_faces <= 105 * d_target

\* The progressive loop has been left and the code after it has run.
C21_AfterLoop == dpc \in {"save", "done"} /\ exit_reason # "none"

C22_SingleIffRatioHalf ==
    ncalls >= 1 =>
        /\ ~RatioBelow(d_target, d_input.faces, 1, 2) =>
               (first_call.fn \in {"single", "uv_single"} /\ first_call.target = d_target)
        /\ RatioBelow(d_target, d_input.faces, 1, 2) =>
               first_call.fn \in {"step", "uv_phase1"}

\* C22 (amended): the threshold depends on the texture coordinates.  Without
\* them the first request is one collapse to target_faces exactly when the
\* ratio is >= 0.5, and otherwise a step to max(target_faces, floor(0.6 *
\* original_faces)).  With them it is one collapse to target_faces exactly
\* when the ratio is >= 0.3, and otherwise the intermediate collapse to
\* floor(0.5 * original_faces).  A single collapse is the only request made.
\* (When the loop's timeout fires before its first step, the first request is
\* the collapse after the loop.)
C22_SingleThresholdByTexcoords ==
    ncalls >= 1 =>
        /\ d_input.loads /\ d_input.faces > d_target
        /\ first_call.fn \in {"single", "step", "final", "uv_single", "uv_phase1"}
        /\ (first_call.fn = "single") <=>
               (~d_input.texcoords /\ 2 * d_target >= d_input.faces)
        /\ (first_call.fn \in {"step", "final"}) <=>
               (~d_input.texcoords /\ 2 * d_target < d_input.faces)
        /\ first_call.fn = "final" =>
               (exit_reason = "timeout" /\ step = 1 /\ first_call.target = d_target)
        /\ (first_call.fn = "uv_single") <=>
               (d_input.texcoords /\ 10 * d_target >= 3 * d_input.faces)
        /\ (first_call.fn = "uv_phase1") <=>
               (d_input.texcoords /\ 10 * d_target < 3 * d_input.faces)
        /\ first_call.fn \in {"single", "uv_single"} =>
               (first_call.target = d_target /\ ncalls = 1)
        /\ first_call.fn = "step" =>
               /\ first_call.target >= d_target
               /\ first_call.target = d_target \/
                      (10 * first_call.target <= 6 * d_input.faces
                          /\ 10 * first_call.target + 10 > 6 * d_input.faces)
        /\ first_call.fn = "uv_phase1" =>
               (2 * first_call.target <= d_input.faces
                   /\ 2 * first_call.target + 2 > d_input.faces)

\* C22 witness: a textured mesh with 0.3 <= ratio < 0.5 was decimated in one
\* collapse straight to target_faces.
C22_Witness ==
    /\ dpc = "done"
    /\ d_input.texcoords
    /\ 10 * d_target >= 3 * d_input.faces
    /\ 2 * d_target < d_input.faces
    /\ ncalls = 1
    /\ first_call = [fn |-> "uv_single", target |-> d_target, weight |-> 2]
    /\ d_result = "simplified"

\* C23: the UV-aware variant (boundary weight above the generic path's, the
\* forced two-phase reduction below ratio 0.3) is used only when preserve_uv
\* is requested and the mesh has texture coordinates; with preserve_uv =
\* false the generic progressive path decimates even a textured mesh.
C23_UVVariantOnlyWhenRequested ==
    ncalls >= 1 =>
        /\ first_call.fn \in {"uv_single", "uv_phase1"} =>
               (preserve_uv /\ d_input.texcoords)
        /\ ~preserve_uv => first_call.fn \in {"single", "step", "final"}

\* C24 (as stated): every step of the progressive loop requests
\* max(target_faces, floor(0.6 * current_faces)): never below target_faces
\* and never removing more than 40% of the faces the step started from.
C24_AtMostFortyPercent ==
    last_call.fn = "step" =>
        /\ last_call.target >= d_target
        /\ last_call.target = d_target \/
               (10 * last_call.target <= 6 * prev_faces
                   /\ 10 * last_call.target + 10 > 6 * prev_faces)
        /\ 10 * (prev_faces - last_call.target) <= 4 * prev_faces

\* C24 (amended): every step requests max(target_faces, floor(0.6 *
\* current_faces)): never below target_faces, always below the count the step
\* started from, and, the 60% being rounded down, removing at most
\* ceil(0.4 * current_faces) faces: less than one face beyond 40%.
C24_StepTargetFloor ==
    last_call.fn = "step" =>
        /\ last_call.target >= d_target
        /\ last_call.target < prev_faces
        /\ last_call.target = d_target \/
               (10 * last_call.target <= 6 * prev_faces
                   /\ 10 * last_call.target + 10 > 6 * prev_faces)
        /\ 10 * (prev_faces - last_call.target) < 4 * prev_faces + 10
        /\ last_call.weight = BoundaryWeight(preserve_boundaries)

\* C24 witness: a second step whose rounded-down 60% is above target_faces and
\* asks for more than 40% of its faces to go.
C24_Witness ==
    /\ step = 3
    /\ last_call.fn = "step"
    /\ last_call.target > d_target
    /\ 10 * (prev_faces - last_call.target) > 4 * prev_faces

\* C25: the progressive loop terminates whatever the collapse calls do.  Each
\* pass either leaves the loop or adds one to step, step never passes
\* max_steps + 1 and at max_steps + 1 the loop is left, so at most max_steps
\* collapses are requested inside it; a pass whose count stalled, rose or fell
\* to <= 0, or whose collapse raised, is the last one.
C25_LoopTerminates ==
    /\ [](dpc = "loop" => (step \in 1..(max_steps + 1) /\ ncalls = step - 1))
    /\ []((dpc = "loop" /\ step > 1) =>
             (~Stuck(current_faces, prev_faces) /\ ~Corrupt(current_faces)))
    /\ []((dpc = "final") => (ncalls <= max_steps /\ exit_reason # "none"))
    /\ [][(dpc = "loop" /\ dpc' = "loop") =>
             (step' = step + 1 /\ max_steps + 1 - step' >= 0)]_vars
    /\ [][(dpc = "loop" /\ step > max_steps) => dpc' = "final"]_vars
    /\ [][(dpc = "loop" /\ dpc' # "loop") => dpc' = "final"]_vars

\* C25 witness: ten steps each made progress and the step cap ended the loop.
C25_Witness ==
    /\ dpc = "final"
    /\ exit_reason = "step_cap"
    /\ step = max_steps + 1
    /\ ncalls = max_steps
    /\ 10 * current_faces > 11 * d_target

(***************************************************************************)
(* restore_obj_material                                                    *)
(***************************************************************************)
\* A line of an OBJ file: its first token as written, and the tokens after it.
MtlLine(name) == [head |-> "mtllib", args |-> <<name>>]

ObjLines ==
    { MtlLine("a.mtl"),
      [head |-> "MTLLIB", args |-> <<"sub/b.mtl">>],
      [head |-> "mtllib", args |-> <<>>],
      [head |-> "v", args |-> <<"0">>] }

\* The lines of the new mesh file, which pymeshlab or the retopology tool
\* wrote: an mtllib line in it names a file.
NewObjLines == {l \in ObjLines : l.head \notin {"mtllib", "MTLLIB"} \/ Len(l.args) > 0}

SeqsUpTo(S, n) == UNION {[1..k -> S] : k \in 0..n}

RefFiles ==
    { [exists |-> FALSE, readable |-> FALSE, lines |-> <<>>],
      [exists |-> TRUE, readable |-> FALSE, lines |-> <<>>] } \cup
    { [exists |-> TRUE, readable |-> TRUE, lines |-> l] : l \in SeqsUpTo(ObjLines, MaxRefLines) }

\* TEMP_DIR may hold the material file and its texture; the reference's
\* directory holds its material files, the texture beside a.mtl.
ScratchDirs == SUBSET {"a.mtl", "t1.png"}

OrigDirs == {{}, {"b.mtl"}, {"a.mtl", "t1.png"}, {"a.mtl", "b.mtl", "t1.png"}}

\* str.lower() on the first token
Lower(h) == IF h = "MTLLIB" THEN "mtllib" ELSE h

\* line.lower().startswith('mtllib')
StartsWithMtllib(l) == Lower(l.head) = "mtllib"

\* name.replace('\\', '/').split('/')[-1]
Basename(tok) == IF tok = "sub/b.mtl" THEN "b.mtl" ELSE tok

\* [line.split()[1] for line in lines if line.lower().startswith('mtllib')]
\* raises IndexError as soon as one such line has no second token.
SplitRaises(lines) ==
    \E i \in 1..Len(lines) : StartsWithMtllib(lines[i]) /\ Len(lines[i].args) = 0

MtlFiles(lines) ==
    LET RECURSIVE Collect(_)
        Collect(i) ==
            IF i > Len(lines) THEN <<>>
            ELSE IF StartsWithMtllib(lines[i])
                 THEN <<lines[i].args[1]>> \o Collect(i + 1)
                 ELSE Collect(i + 1)
    IN Collect(1)

\* Mutant: the reference's directory is tried before TEMP_DIR.
ResolveSource_OrigFirst(name, scratch, orig) ==
    IF name \in orig THEN "orig"
    ELSE IF name \in scratch THEN "scratch"
    ELSE "none"

\* TEMP_DIR first, then the reference's directory; "none" when in neither.
ResolveSource(name, scratch, orig) ==
    IF name \in scratch THEN "scratch"
    ELSE IF name \in orig THEN "orig"
    ELSE "none"

\* safe_copy(src, new_dir): the file of that name beside the new mesh is now
\* the copy of src.
CopyInto(dir, name, from) ==
    {f \in dir : f.name # name} \cup {[name |-> name, from |-> from]}

\* Mutant: a texture found in neither directory ends the texture loop.
CopyTextures_StopAtMissing(dir, refs, scratch, orig, failed) ==
    LET RECURSIVE Walk(_, _)
        Walk(i, d) ==
            IF i > Len(refs) THEN d
            ELSE IF ResolveSource(refs[i], scratch, orig) = "none" THEN d
            ELSE IF refs[i] \in failed THEN Walk(i + 1, d)
            ELSE Walk(i + 1, CopyInto(d, refs[i], ResolveSource(refs[i], scratch, orig)))
    IN Walk(1, dir)

\* The texture loop, in the order of the material file's lines: a texture
\* found in neither directory is passed over, one whose safe_copy raises
\* (failed) is passed over by "continue", every other one is copied.
CopyTextures(dir, refs, scratch, orig, failed) ==
    LET RECURSIVE Walk(_, _)
        Walk(i, d) ==
            IF i > Len(refs) THEN d
            ELSE IF ResolveSource(refs[i], scratch, orig) = "none" THEN Walk(i + 1, d)
            ELSE IF refs[i] \in failed THEN Walk(i + 1, d)
            ELSE Walk(i + 1, CopyInto(d, refs[i], ResolveSource(refs[i], scratch, orig)))
    IN Walk(1, dir)

\* The referenced textures that resolve in TEMP_DIR or the reference's directory.
Resolvable(refs, scratch, orig) ==
    {refs[i] : i \in {k \in 1..Len(refs) : ResolveSource(refs[k], scratch, orig) # "none"}}

\* Mutant: every mtllib line is rewritten, none is dropped.
RewriteMtllib_KeepAll(lines, mtl_file) ==
    IF \E i \in 1..Len(lines) : StartsWithMtllib(lines[i])
    THEN [i \in 1..Len(lines) |->
             IF StartsWithMtllib(lines[i]) THEN MtlLine(mtl_file) ELSE lines[i]]
    ELSE <<MtlLine(mtl_file)>> \o lines

\* The rewrite of the new mesh: the first mtllib line becomes
\* "mtllib <mtl_file>", later ones are dropped, and when there was none the
\* line is inserted at the top.
RewriteMtllib(lines, mtl_file) ==
    LET RECURSIVE Walk(_, _)
        Walk(i, mtl_written) ==
            IF i > Len(lines) THEN <<>>
            ELSE IF StartsWithMtllib(lines[i])
                 THEN (IF ~mtl_written THEN <<MtlLine(mtl_file)>> ELSE <<>>)
                      \o Walk(i + 1, TRUE)
                 ELSE <<lines[i]>> \o Walk(i + 1, mtl_written)
    IN IF \E i \in 1..Len(lines) : StartsWithMtllib(lines[i])
       THEN Walk(1, FALSE)
       ELSE <<MtlLine(mtl_file)>> \o lines

\* How many lines of a file the rewrite treats as mtllib lines.
CountMtllib(lines) == Cardinality({i \in 1..Len(lines) : StartsWithMtllib(lines[i])})

\* Where restore_obj_material stops, for a given reference and file system.
\* copy_ok / write_ok: whether safe_copy of the MTL and the rewrite's file I/O
\* succeed.
RelinkOutcome(ref, scratch, orig, copy_ok, write_ok) ==
    IF ~ref.exists THEN "no_reference"
    ELSE IF ~ref.readable THEN "unreadable"
    ELSE IF SplitRaises(ref.lines) THEN "IndexError"
    ELSE IF MtlFiles(ref.lines) = <<>> THEN "no_mtllib"
    ELSE IF ResolveSource(Basename(MtlFiles(ref.lines)[1]), scratch, orig) = "none"
         THEN "mtl_not_found"
    ELSE IF ~copy_ok THEN "copy_failed"
    ELSE IF ~write_ok THEN "rewrite_failed"
    ELSE "rewritten"

RLInit ==
    /\ r_new \in SeqsUpTo(NewObjLines, MaxLines)
    /\ r_ref \in RefFiles
    /\ r_scratch \in ScratchDirs
    /\ r_orig \in OrigDirs
    /\ r_newdir = {}
    /\ r_mtl_refs = <<"t2.png", "t1.png">>
    /\ r_tex_failed = {}
    /\ r_apps = 0
    /\ r_outcome = "none"
    /\ r_before = <<>>
    /\ r_first = [outcome |-> "none", lines |-> <<>>, mtllibs |-> 0]
    /\ ConvIdle
    /\ PMIdle
    /\ DecIdle
    /\ WSIdle
    /\ IMIdle
    /\ DLIdle

\* One call restore_obj_material(obj_path, original_obj_path).
Relink ==
    /\ r_apps < 2
    /\ r_outcome # "IndexError"
    /\ \E copy_ok \in BOOLEAN, write_ok \in BOOLEAN,
          failed \in SUBSET Resolvable(r_mtl_refs, r_scratch, r_orig) :
         LET out == RelinkOutcome(r_ref, r_scratch, r_orig, copy_ok, write_ok)
             mtl_file == Basename(MtlFiles(r_ref.lines)[1])
             src == ResolveSource(mtl_file, r_scratch, r_orig)
         IN /\ r_outcome' = out
            /\ r_newdir' =
                 (IF out \in {"rewrite_failed", "rewritten"}
                  THEN CopyTextures(CopyInto(r_newdir, mtl_file, src), r_mtl_refs,
                                    r_scratch, r_orig, failed)
                  ELSE r_newdir)
            /\ r_new' = (IF out = "rewritten" THEN RewriteMtllib(r_new, mtl_file) ELSE r_new)
            /\ r_first' =
                 (IF r_apps = 0
                  THEN [outcome |-> out,
                        lines |-> (IF out = "rewritten"
                                   THEN RewriteMtllib(r_new, mtl_file) ELSE r_new),
                        mtllibs |-> CountMtllib(r_new)]
                  ELSE r_first)
            /\ r_tex_failed' =
                 (IF out \in {"rewrite_failed", "rewritten"} THEN failed ELSE {})
    /\ r_before' = r_new
    /\ r_apps' = r_apps + 1
    /\ UNCHANGED <<r_ref, r_scratch, r_orig, r_mtl_refs>>
    /\ UNCHANGED NotRL

RLNext == Relink

SpecRL == RLInit /\ [][RLNext]_vars

(***************************************************************************)
(* Claims about the relinker                                               *)
(***************************************************************************)
\* The mtllib lines of the new mesh file, by position.
MtllibPositions(lines) ==
    {i \in 1..Len(lines) : lines[i].head \in {"mtllib", "MTLLIB"}}

\* What the reference names: the last path component of the file name on its
\* first mtllib line.
C8_ResolvedName ==
    LET j == CHOOSE j \in MtllibPositions(r_ref.lines) :
                 \A k \in MtllibPositions(r_ref.lines) : j <= k
        tok == r_ref.lines[j].args[1]
    IN IF tok = "sub/b.mtl" THEN "b.mtl" ELSE tok

\* C8: after a relink that rewrote the new mesh file (whatever number of mtllib
\* lines it held: 0, 1 or several) the file holds exactly one mtllib line, it
\* names the material file that was resolved and copied beside the mesh, and a
\* second relink leaves the file as the first one left it.
C8_ExactlyOneMtllib ==
    /\ r_outcome = "rewritten" =>
          /\ Cardinality(MtllibPositions(r_new)) = 1
          /\ \A i \in MtllibPositions(r_new) :
                /\ r_new[i] = [head |-> "mtllib", args |-> <<C8_ResolvedName>>]
                /\ C8_ResolvedName \in r_scratch \cup r_orig
                /\ \E f \in r_newdir : f.name = C8_ResolvedName
          /\ \A i \in 1..Len(r_before) :
                r_before[i].head \notin {"mtllib", "MTLLIB"} =>
                   \E k \in 1..Len(r_new) : r_new[k] = r_before[i]
    /\ (r_apps = 2 /\ r_first.outcome = "rewritten") => r_new = r_first.lines

\* C8 witness: a file with two mtllib lines was rewritten to one, then relinked
\* again.
C8_Witness ==
    /\ r_apps = 2
    /\ r_first.outcome = "rewritten"
    /\ r_first.mtllibs = 2
    /\ r_outcome = "rewritten"
    /\ Cardinality(MtllibPositions(r_new)) = 1

\* C8 witness for the file without any mtllib line: the line is inserted.
C8_WitnessInserted ==
    /\ r_apps = 1
    /\ r_outcome = "rewritten"
    /\ r_first.mtllibs = 0
    /\ Len(r_new) = Len(r_before) + 1

\* The names of the files beside the new mesh.
C26_NewDirNames == {f.name : f \in r_newdir}

\* The relink got as far as copying: the material file resolved and was copied.
C26_Copied == r_apps >= 1 /\ r_outcome \in {"rewritten", "rewrite_failed"}

\* C26: the material file and each referenced texture are resolved in the
\* scratch directory first and the reference's directory second: a file beside
\* the new mesh is the scratch copy whenever the scratch directory holds that
\* name, and the reference directory's copy only when the scratch directory
\* does not; the resolved material file is always copied, a resolvable
\* texture whenever its copy does not fail.
C26_ScratchFirst ==
    /\ \A f \in r_newdir :
          /\ f.name \in r_scratch => f.from = "scratch"
          /\ f.name \notin r_scratch => (f.name \in r_orig /\ f.from = "orig")
    /\ C26_Copied =>
          /\ C8_ResolvedName \in C26_NewDirNames
          /\ \A i \in 1..Len(r_mtl_refs) :
                (r_mtl_refs[i] \in r_scratch \cup r_orig /\ r_mtl_refs[i] \notin r_tex_failed)
                    => r_mtl_refs[i] \in C26_NewDirNames
    /\ ~C26_Copied => (r_apps < 2 => r_newdir = {})

\* C26 witness: the material file and the texture exist in both directories
\* and the scratch copies are the ones beside the new mesh.
C26_Witness ==
    /\ r_outcome = "rewritten"
    /\ {"a.mtl", "t1.png"} \subseteq r_scratch
    /\ {"a.mtl", "t1.png"} \subseteq r_orig
    /\ [name |-> "a.mtl", from |-> "scratch"] \in r_newdir
    /\ [name |-> "t1.png", from |-> "scratch"] \in r_newdir

\* C26, the other case: the files exist only in the reference's directory.
C26_WitnessOrigOnly ==
    /\ r_outcome = "rewritten"
    /\ r_scratch = {}
    /\ r_newdir = {[name |-> "a.mtl", from |-> "orig"], [name |-> "t1.png", from |-> "orig"]}

\* C27: a referenced texture found in neither directory is passed over
\* without ending the relink: nothing of that name appears beside the new
\* mesh, the resolvable textures after it are still copied, and the rewrite
\* of the mtllib line still takes place.
C27_MissingTextureSkipped ==
    C26_Copied =>
        /\ \A i \in 1..Len(r_mtl_refs) :
              r_mtl_refs[i] \notin r_scratch \cup r_orig =>
                 /\ r_mtl_refs[i] \notin C26_NewDirNames
                 /\ \A j \in (i + 1)..Len(r_mtl_refs) :
                       (r_mtl_refs[j] \in r_scratch \cup r_orig
                           /\ r_mtl_refs[j] \notin r_tex_failed)
                       => \E f \in r_newdir : f.name = r_mtl_refs[j] /\ f.from # "none"
        /\ r_outcome = "rewritten" =>
              \E k \in 1..Len(r_new) : r_new[k] = MtlLine(C8_ResolvedName)

\* C27 witness: the first referenced texture is nowhere, the second one was
\* copied from the reference's directory and the mtllib line was rewritten.
C27_Witness ==
    /\ r_apps = 1
    /\ r_outcome = "rewritten"
    /\ r_mtl_refs[1] \notin r_scratch \cup r_orig
    /\ r_mtl_refs[2] \in r_orig \ r_scratch
    /\ [name |-> r_mtl_refs[2], from |-> "orig"] \in r_newdir
    /\ r_new # r_before

\* C9: relink never raises: when the reference carries no usable material
\* library (missing or unreadable file, no mtllib line, an mtllib line with no
\* file name) it returns normally and the new mesh file is unchanged.
C9_NeverRaises ==
    /\ r_outcome # "IndexError"
    /\ r_outcome \in {"no_reference", "unreadable", "no_mtllib"} => r_new = r_before

(***************************************************************************)
(* Top-level requests on the shared scratch directory (TEMP_DIR)           *)
(***************************************************************************)
Entries(r, names) == {[owner |-> r, name |-> n] : n \in names}

\* The files of request r among names that are not in TEMP_DIR.
Missing(r, names) == {n \in names : [owner |-> r, name |-> n] \notin w_scratch}

\* Mutant: the wipe leaves the directory as it is.
clean_temp_directory_Noop(dir) == dir

\* clean_temp_directory(): every file and sub-directory of TEMP_DIR is
\* removed, whoever put it there.
clean_temp_directory(dir) == {}

\* Mutant: staging copies nothing into TEMP_DIR.
StagedNames_None(k) == {}

\* Step 1 of process_model: the input mesh is staged into TEMP_DIR.
StagedNames(k) == IF k = "process" THEN {"mesh"} ELSE {}

\* A request that has started and not yet returned or raised.
InFlight(q) == w_pc[q] \notin {"idle", "new", "done"}

\* One step of request r that reads, removes and writes files of its own.
FileStep(r, to, reads, removes, writes) ==
    /\ w_lost' = [w_lost EXCEPT ![r] = @ \cup Missing(r, reads)]
    /\ w_scratch' = (w_scratch \ Entries(r, removes)) \cup Entries(r, writes)
    /\ w_pc' = [w_pc EXCEPT ![r] = to]
    /\ UNCHANGED <<w_kind, w_hit, w_wipes, w_result>>

\* Request r calls clean_temp_directory(); the files of the other requests
\* that go with it are noted.
WipeStep(r, to, result) ==
    /\ w_scratch' = clean_temp_directory(w_scratch)
    /\ w_hit' = [q \in Reqs |->
                   IF q # r
                   THEN w_hit[q] \cup
                        {e.name : e \in {x \in w_scratch \ clean_temp_directory(w_scratch) :
                                            x.owner = q}}
                   ELSE w_hit[q]]
    /\ w_wipes' = [w_wipes EXCEPT ![r] = @ + 1]
    /\ w_pc' = [w_pc EXCEPT ![r] = to]
    /\ w_result' = [w_result EXCEPT ![r] = result]
    /\ UNCHANGED w_kind

WSInit ==
    /\ w_kind \in [Reqs -> {"process", "analyze", "absent"}]
    /\ w_pc = [r \in Reqs |-> CASE w_kind[r] = "process" -> "new"
                                [] w_kind[r] = "analyze" -> "launch"
                                [] OTHER -> "idle"]
    /\ w_scratch = {}
    /\ w_hit = [r \in Reqs |-> {}]
    /\ w_lost = [r \in Reqs |-> {}]
    /\ w_wipes = [r \in Reqs |-> 0]
    /\ w_result = [r \in Reqs |-> "none"]
    /\ ConvIdle
    /\ PMIdle
    /\ DecIdle
    /\ RLIdle
    /\ IMIdle
    /\ DLIdle

\* process_model: clean_temp_directory() before anything else.
WPStart(r) ==
    /\ w_kind[r] = "process"
    /\ w_pc[r] = "new"
    /\ WipeStep(r, "stage", "none")
    /\ UNCHANGED w_lost
    /\ UNCHANGED NotWS

\* process_model step 1: the input is staged.
WPStage(r) ==
    /\ w_kind[r] = "process"
    /\ w_pc[r] = "stage"
    /\ FileStep(r, "inspect", {}, {}, StagedNames(w_kind[r]))
    /\ UNCHANGED NotWS

\* process_model step 2: check_mesh_quality(obj_in) reads the staged mesh.
WPInspect(r) ==
    /\ w_kind[r] = "process"
    /\ w_pc[r] = "inspect"
    /\ FileStep(r, "rewrite", {"mesh"}, {}, {})
    /\ UNCHANGED NotWS

\* process_model steps 4-5: the decimator or the retopology tool reads the
\* staged mesh and writes the new one beside it.
WPRewrite(r) ==
    /\ w_kind[r] = "process"
    /\ w_pc[r] = "rewrite"
    /\ FileStep(r, "launch", {"mesh"}, {},
                IF Missing(r, {"mesh"}) = {} THEN {"mesh"} ELSE {})
    /\ UNCHANGED NotWS

\* The converter writes its driver script into TEMP_DIR and starts the tool
\* (obj_to_glb in process_model, glb_to_obj in analyze_model).
WLaunch(r) ==
    /\ w_pc[r] = "launch"
    /\ FileStep(r, "tool", {}, {}, {"script"})
    /\ UNCHANGED NotWS

\* The detached tool process: it reads the script (and, for obj_to_glb, the
\* mesh in TEMP_DIR) and writes the output file and the completion flag.
WTool(r) ==
    /\ w_pc[r] = "tool"
    /\ LET needs == IF w_kind[r] = "process" THEN {"script", "mesh"} ELSE {"script"}
       IN FileStep(r, "collect", needs, {},
                   IF Missing(r, needs) = {} THEN {"output", "flag"} ELSE {})
    /\ UNCHANGED NotWS

\* The coordinator looks for the flag and the output, removes the flag and the
\* script, and falls back to the in-process conversion when there is no
\* output (which in process_model reads the mesh in TEMP_DIR).
WCollect(r) ==
    /\ w_pc[r] = "collect"
    /\ LET fallback == Missing(r, {"output"}) # {}
           source == IF fallback /\ w_kind[r] = "process" THEN {"mesh"} ELSE {}
       IN FileStep(r, (IF w_kind[r] = "process" THEN "move" ELSE "inspect"),
                   {"flag", "output"} \cup source, {"flag", "script"},
                   IF fallback /\ Missing(r, source) = {} THEN {"output"} ELSE {})
    /\ UNCHANGED NotWS

\* analyze_model: check_mesh_quality(temp_obj), then os.remove(temp_obj).
WAInspect(r) ==
    /\ w_kind[r] = "analyze"
    /\ w_pc[r] = "inspect"
    /\ FileStep(r, "finish", {"output"}, {"output"}, {})
    /\ UNCHANGED NotWS

\* process_model step 9: move_and_cleanup(temp_glb, output_model) takes the
\* output out of TEMP_DIR; a missing output raises, and the except clause
\* wipes and re-raises.
WPMove(r) ==
    /\ w_kind[r] = "process"
    /\ w_pc[r] = "move"
    /\ IF Missing(r, {"output"}) = {}
       THEN FileStep(r, "archive", {"output"}, {"output"}, {})
       ELSE /\ w_lost' = [w_lost EXCEPT ![r] = @ \cup Missing(r, {"output"})]
            /\ WipeStep(r, "done", "raised")
    /\ UNCHANGED NotWS

\* Mutant: the directory is emptied before the archive is made.
WPArchive_WipesFirst(r) ==
    /\ w_kind[r] = "process"
    /\ w_pc[r] = "archive"
    /\ WipeStep(r, "finish", "none")
    /\ UNCHANGED w_lost
    /\ UNCHANGED NotWS

\* process_model step 10: create_model_archive copies the moved model, the
\* input and whatever temporary and texture files still exist.
WPArchive(r) ==
    /\ w_kind[r] = "process"
    /\ w_pc[r] = "archive"
    /\ FileStep(r, "finish", {}, {}, {})
    /\ UNCHANGED NotWS

\* process_model step 11: the temporary files are removed, then
\* clean_temp_directory() and return.
WPFinish(r) ==
    /\ w_kind[r] = "process"
    /\ w_pc[r] = "finish"
    /\ WipeStep(r, "done", "returned")
    /\ UNCHANGED w_lost
    /\ UNCHANGED NotWS

\* analyze_model: clean_temp_directory(), return result.
WAFinish(r) ==
    /\ w_kind[r] = "analyze"
    /\ w_pc[r] = "finish"
    /\ WipeStep(r, "done", "returned")
    /\ UNCHANGED w_lost
    /\ UNCHANGED NotWS

\* An exception inside the try block of process_model (any stage), or in
\* analyze_model outside the per-analysis try: wipe, then raise.
WRaise(r) ==
    /\ \/ w_kind[r] = "process" /\ w_pc[r] \in {"stage", "inspect", "rewrite", "launch", "collect",
                                              "move", "archive"}
       \/ w_kind[r] = "analyze" /\ w_pc[r] = "launch"
    /\ WipeStep(r, "done", "raised")
    /\ UNCHANGED w_lost
    /\ UNCHANGED NotWS

WSNext ==
    \E r \in Reqs :
        \/ WPStart(r)
        \/ WPStage(r)
        \/ WPInspect(r)
        \/ WPRewrite(r)
        \/ WLaunch(r)
        \/ WTool(r)
        \/ WCollect(r)
        \/ WAInspect(r)
        \/ WPMove(r)
        \/ WPArchive(r)
        \/ WPFinish(r)
        \/ WAFinish(r)
        \/ WRaise(r)

SpecWS == WSInit /\ [][WSNext]_vars

C14_LossOnlyByOthersWipe ==
    \A r \in Reqs : w_lost[r] # {} => w_hit[r] # {}

\* C14 witness: the staged mesh of one request was deleted by the other
\* request's wipe before the first request read it.
C14_Witness ==
    \E r \in Reqs, q \in Reqs :
        /\ r # q
        /\ w_kind[r] \in {"process", "analyze"}
        /\ w_kind[q] \in {"process", "analyze"}
        /\ "mesh" \in w_hit[r]
        /\ "mesh" \in w_lost[r]
        /\ w_wipes[q] > 0

\* The stages of a process_model request from the staged input up to the
\* end-of-request wipe.
C28_Stages == {"inspect", "rewrite", "launch", "tool", "collect", "move", "archive", "finish"}

\* C28: a process_model request empties the scratch directory itself only in
\* its first step and in the step by which it returns or raises; from the
\* staging of the input to the end of conversion, move and archive creation
\* it has wiped exactly once, its staged input is still in the directory
\* unless another request's wipe took it, and the wipe of a returning request
\* comes after the archive step.
C28_NoWipeBeforeFinalised ==
    /\ [](\A r \in Reqs :
             (w_kind[r] = "process" /\ w_pc[r] \in C28_Stages) =>
                /\ w_wipes[r] = 1
                /\ w_hit[r] = {} => [owner |-> r, name |-> "mesh"] \in w_scratch)
    /\ [][\A r \in Reqs :
             w_kind[r] = "process" =>
                /\ w_wipes'[r] # w_wipes[r] => (w_pc[r] = "new" \/ w_pc'[r] = "done")
                /\ (w_pc[r] # "done" /\ w_pc'[r] = "done" /\ w_result'[r] = "returned") =>
                       (w_pc[r] = "finish" /\ w_wipes'[r] = 2)
                /\ w_pc'[r] = "finish" => w_pc[r] \in {"archive", "finish"}
                /\ w_pc'[r] = "archive" => w_pc[r] \in {"move", "archive"}
                /\ w_pc'[r] = "move" => w_pc[r] \in {"collect", "move"}]_vars

\* C28 witness: a request returned after conversion, move and archive, having
\* wiped once at its start and once at its end, and lost nothing.
C28_Witness ==
    \E r \in Reqs :
        /\ w_kind[r] = "process"
        /\ w_pc[r] = "done"
        /\ w_result[r] = "returned"
        /\ w_wipes[r] = 2
        /\ w_lost[r] = {}
        /\ w_hit[r] = {}
        /\ w_scratch = {}

(***************************************************************************)
(* run_instant_meshes                                                      *)
(***************************************************************************)
Modes == {"fine", "coarse", "fix_holes", "balanced"}

Jobs == {"own", "other"}

\* int(x * 0.8): Python's int() truncates toward zero.
IntOfEightTenths(t) == IF t >= 0 THEN (8 * t) \div 10 ELSE -((8 * (-t)) \div 10)

\* The value handed to the tool as --faces: coarse mode takes 80% of the
\* target, every other mode the target itself.
FacesFlag(mode, t) == IF mode = "coarse" THEN IntOfEightTenths(t) ELSE t

\* The finally clause: every process whose name contains
\* 'Instant Meshes.exe' is killed, whatever job started it.
KillInstantMeshes(procs) ==
    [j \in Jobs |-> IF procs[j] = "running" THEN "killed" ELSE procs[j]]

IMInit ==
    /\ im_pc = "start"
    /\ im_mode \in Modes
    /\ im_target \in -1..MaxIMTarget
    /\ im_faces = 0
    /\ im_procs \in {[own |-> "none", other |-> o] : o \in {"none", "running"}}
    /\ im_waited = 0
    /\ im_result = "none"
    /\ ConvIdle
    /\ PMIdle
    /\ DecIdle
    /\ RLIdle
    /\ WSIdle
    /\ DLIdle

\* The command line is built and subprocess.Popen starts the tool.
IMLaunch ==
    /\ im_pc = "start"
    /\ im_faces' = FacesFlag(im_mode, im_target)
    /\ im_procs' = [im_procs EXCEPT !["own"] = "running"]
    /\ im_pc' = "communicate"
    /\ UNCHANGED <<im_mode, im_target, im_waited, im_result>>
    /\ UNCHANGED NotIM

\* Popen (or opening the log file) raises: the finally clause runs and the
\* exception reaches the caller.
IMLaunchRaises ==
    /\ im_pc = "start"
    /\ im_faces' = FacesFlag(im_mode, im_target)
    /\ im_procs' = KillInstantMeshes(im_procs)
    /\ im_pc' = "done"
    /\ im_result' = "raised"
    /\ UNCHANGED <<im_mode, im_target, im_waited>>
    /\ UNCHANGED NotIM

\* A second of proc.communicate(): the call is blocked for as long as the
\* tool process runs; nothing in the function counts the time or gives up.
IMBlocked ==
    /\ im_pc = "communicate"
    /\ im_procs["own"] = "running"
    /\ im_waited <= max_wait_time
    /\ im_waited' = im_waited + 1
    /\ UNCHANGED <<im_pc, im_mode, im_target, im_faces, im_procs, im_result>>
    /\ UNCHANGED NotIM

\* The tool process of this job exits, with return code 0 or not.
IMToolExits ==
    /\ im_procs["own"] = "running"
    /\ \E code \in {"exited_0", "exited_nonzero"} :
         im_procs' = [im_procs EXCEPT !["own"] = code]
    /\ UNCHANGED <<im_pc, im_mode, im_target, im_faces, im_waited, im_result>>
    /\ UNCHANGED NotIM

\* Another job's Instant Meshes process starts or ends on its own.
IMOtherJob ==
    /\ im_pc # "done"
    /\ im_procs["other"] \in {"none", "running"}
    /\ im_procs' = [im_procs EXCEPT !["other"] =
                       IF im_procs["other"] = "none" THEN "running" ELSE "exited_0"]
    /\ UNCHANGED <<im_pc, im_mode, im_target, im_faces, im_waited, im_result>>
    /\ UNCHANGED NotIM

\* communicate() returns: CalledProcessError on a non-zero return code, and
\* the finally clause either way.
IMReturn ==
    /\ im_pc = "communicate"
    /\ im_procs["own"] \in {"exited_0", "exited_nonzero"}
    /\ im_result' = (IF im_procs["own"] = "exited_0" THEN "returned" ELSE "raised")
    /\ im_procs' = KillInstantMeshes(im_procs)
    /\ im_pc' = "done"
    /\ UNCHANGED <<im_mode, im_target, im_faces, im_waited>>
    /\ UNCHANGED NotIM

IMNext ==
    \/ IMLaunch
    \/ IMLaunchRaises
    \/ IMBlocked
    \/ IMToolExits
    \/ IMOtherJob
    \/ IMReturn

SpecIM == IMInit /\ [][IMNext]_vars

(***************************************************************************)
(* Claims about run_instant_meshes                                         *)
(***************************************************************************)
\* C15: the cleanup terminates only processes of this job: a tool process
\* that belongs to another job is never terminated by it.
C15_KillsOnlyOwnJob ==
    im_procs["other"] # "killed"

\* C19: every face-count target in use is positive; in particular, for a
\* positive target_faces argument, the count handed to the retopology tool as
\* --faces (int(0.8 * target_faces) in coarse mode) is positive.
C19_FacesFlagPositive ==
    (im_pc # "start" /\ im_target > 0) => im_faces > 0

\* C16: the wait for the retopology tool is bounded like the converter's: the
\* call is never still waiting once max_wait_time seconds have gone by.
C16_WaitIsBounded ==
    ~(im_pc = "communicate" /\ im_procs["own"] = "running" /\ im_waited > max_wait_time)

(***************************************************************************)
(* download_to_temp                                                        *)
(***************************************************************************)
\* max_retries = 3
max_retries == 3

\* retry_delay = 2 (seconds), here in quarter seconds
InitialRetryDelay == 8

\* How one pass of the try block can end: the response was written in full,
\* raise_for_status() raised HTTPError with one of the statuses the handler
\* tells apart (500 standing for every other status), requests raised Timeout
\* or ConnectionError, or something else raised (the write included).
Outcomes ==
    {"ok", "http403", "http404", "http429", "http503", "http500",
     "timeout", "connection", "error"}

\* Mutant: every failure is retried, a 404 too.
RetryableOutcome_All(o) == o # "ok"

\* The failures whose handler has an "if attempt < max_retries - 1: ...
\* continue" branch.
RetryableOutcome(o) ==
    o \in {"http403", "http429", "http503", "timeout", "connection", "error"}

\* Mutant: the handlers retry whatever the attempt.
MayRetry_NoCap(o, attempt) == RetryableOutcome(o)

MayRetry(o, attempt) == RetryableOutcome(o) /\ attempt < max_retries - 1

\* retry_delay *= 1.5 after a 403, *= 2 after a 429 or 503, unchanged otherwise.
NextDelay(o, delay) ==
    IF o = "http403" THEN (delay * 3) \div 2
    ELSE IF o \in {"http429", "http503"} THEN delay * 2
    ELSE delay

\* What an attempt leaves in the temp file: open(temp_path, 'wb') truncates,
\* so a failed write leaves it empty or partly written.
FileAfter(o, before) ==
    IF o = "ok" THEN {"full"}
    ELSE IF o = "error" THEN {before, "empty", "partial"}
    ELSE {before}

DLInit ==
    /\ dl_pc = "start"
    /\ dl_attempt = 0
    /\ dl_log = <<>>
    /\ retry_delay = InitialRetryDelay
    /\ dl_slept = 0
    /\ dl_file = "absent"
    /\ dl_result = "none"
    /\ ConvIdle
    /\ PMIdle
    /\ DecIdle
    /\ RLIdle
    /\ WSIdle
    /\ IMIdle

\* temp_path = get_temp_file(suffix): mkstemp creates the empty file, or
\* raises before any attempt is made.
DLStart ==
    /\ dl_pc = "start"
    /\ \E ok \in BOOLEAN :
         IF ok THEN /\ dl_file' = "empty"
                    /\ dl_pc' = "attempt"
                    /\ UNCHANGED dl_result
               ELSE /\ dl_result' = "OSError"
                    /\ dl_pc' = "done"
                    /\ UNCHANGED dl_file
    /\ UNCHANGED <<dl_attempt, dl_log, retry_delay, dl_slept>>
    /\ UNCHANGED NotDL

\* One pass of the for loop's try block with its handlers: return temp_path,
\* raise RuntimeError, or go on to sleep and continue.
DLAttempt ==
    /\ dl_pc = "attempt"
    /\ \E o \in Outcomes :
         /\ dl_log' = Append(dl_log, o)
         /\ dl_file' \in FileAfter(o, dl_file)
         /\ IF o = "ok"
            THEN /\ dl_result' = "path"
                 /\ dl_pc' = "done"
            ELSE IF MayRetry(o, dl_attempt)
            THEN /\ dl_pc' = "sleep"
                 /\ UNCHANGED dl_result
            ELSE /\ dl_result' = "RuntimeError"
                 /\ dl_pc' = "done"
    /\ UNCHANGED <<dl_attempt, retry_delay, dl_slept>>
    /\ UNCHANGED NotDL

\* time.sleep(retry_delay), the back-off, "continue": the next attempt of
\* range(max_retries), or, the range used up, the raise after the loop.
DLSleep ==
    /\ dl_pc = "sleep"
    /\ dl_slept' = dl_slept + retry_delay
    /\ retry_delay' = NextDelay(dl_log[Len(dl_log)], retry_delay)
    /\ dl_attempt' = dl_attempt + 1
    /\ IF dl_attempt + 1 < max_retries
       THEN /\ dl_pc' = "attempt"
            /\ UNCHANGED dl_result
       ELSE /\ dl_pc' = "done"
            /\ dl_result' = "RuntimeError"
    /\ UNCHANGED <<dl_log, dl_file>>
    /\ UNCHANGED NotDL

DLNext ==
    \/ DLStart
    \/ DLAttempt
    \/ DLSleep

SpecDL == DLInit /\ [][DLNext]_vars

C30_WitnessNotFound ==
    dl_pc = "done" /\ dl_log = <<"http404">> /\ dl_result = "RuntimeError" /\ dl_slept = 0

C30_WitnessThirdTime ==
    dl_pc = "done" /\ Len(dl_log) = 3 /\ dl_result = "path" /\ dl_file = "full"

====
